---- MODULE Spec2Model ----
(***************************************************************************)
(* Model of the release-channel lookup service: the in-memory indexed      *)
(* store (package db) and the server that loads it from a JSON file and    *)
(* reloads it when the file's modification time advances (package server). *)
(* Both packages live in src/internal/db/db.go (db: lines 1-129, server:   *)
(* lines 131-347).                                                         *)
(*                                                                         *)
(* Five specifications share the variables:                                *)
(*   StoreSpec  one inMem store driven through its interface, Write and    *)
(*              Query, with every Release the field sets allow, and        *)
(*              rebuilt by undisturbed loads;                              *)
(*   Spec       the server from main's call of New on: the file-watcher    *)
(*              goroutine and an on-demand reload handler run              *)
(*              ReloadDatabase statement by statement, interleaved with    *)
(*              each other, with the query handler and with an external    *)
(*              writer of the backing file.                                *)
(*   ReloadSpec the reload calls of Spec alone, one more of them;          *)
(*   LifeSpec   the watcher and the query handler of a serving Run, until  *)
(*              the context is cancelled and Run returns;                  *)
(*   RunSpec    Run from its call: watcher, listener, select, return.      *)
(***************************************************************************)
EXTENDS Naturals, Sequences, FiniteSets, TLC

\* ------------------------------------------------------------------ bounds

\* successful Write calls on the store of StoreSpec
MaxWrites == 3
\* largest modification time the backing file takes
MaxTime == 2
\* ReloadDatabase calls started in one behaviour of Spec
MaxReloads == 2
\* ReloadDatabase calls started in one behaviour of ReloadSpec
MaxCalls == 3

\* ------------------------------------------------------------ the data sets

Containers == {"a", "b"}
Channels == {"dev", "prod"}
ImagePaths == {"i1", "i2"}

\* every Release value a caller can build, the empty string included
AllReleases ==
  [container : Containers \cup {""},
   imagePath : ImagePaths \cup {""},
   releaseChannel : Channels \cup {""}]

\* a query is a Release of which only container and releaseChannel are read
Filters ==
  [container : Containers \cup {""},
   imagePath : {""},
   releaseChannel : Channels \cup {""}]

\* ------------------------------------------------------------- package db

\* a *Release that points at nothing
Nil == [nil |-> TRUE]

ToKeyContainerOnly(r) == [container |-> r.container, releaseChannel |-> ""]

ToKey(r) == [container |-> r.container, releaseChannel |-> r.releaseChannel]

EmptyMap == [k \in {} |-> <<>>]

NewInMemoryStore ==
  [all |-> <<>>, byChannel |-> EmptyMap, byContainer |-> EmptyMap, byBoth |-> EmptyMap]

\* m[k] = v of a Go map
MapPut(m, k, v) == [x \in (DOMAIN m) \cup {k} |-> IF x = k THEN v ELSE m[x]]

\* m[k] of a Go map of slices: the nil slice when k is absent
MapGet(m, k) == IF k \in DOMAIN m THEN m[k] ELSE <<>>

QueryNewestFirst(im, r) ==
  IF r.container # "" /\ r.releaseChannel # ""
  THEN IF ToKey(r) \in DOMAIN im.byBoth THEN <<im.byBoth[ToKey(r)]>> ELSE <<>>
  ELSE IF r.container # ""
  THEN MapGet(im.byContainer, r.container)
  ELSE IF r.releaseChannel # ""
  THEN MapGet(im.byChannel, r.releaseChannel)
  ELSE [i \in 1..Len(im.all) |-> im.all[Len(im.all) + 1 - i]]

QueryFallsBackToContainer(im, r) ==
  IF r.container # "" /\ r.releaseChannel # "" /\ ToKey(r) \in DOMAIN im.byBoth
  THEN <<im.byBoth[ToKey(r)]>>
  ELSE IF r.container # ""
  THEN MapGet(im.byContainer, r.container)
  ELSE IF r.releaseChannel # ""
  THEN MapGet(im.byChannel, r.releaseChannel)
  ELSE im.all

QueryByContainerFirst(im, r) ==
  IF r.container # ""
  THEN MapGet(im.byContainer, r.container)
  ELSE IF r.releaseChannel # ""
  THEN MapGet(im.byChannel, r.releaseChannel)
  ELSE im.all

Query(im, r) ==
  IF r.container # "" /\ r.releaseChannel # ""
  THEN IF ToKey(r) \in DOMAIN im.byBoth THEN <<im.byBoth[ToKey(r)]>> ELSE <<>>
  ELSE IF r.container # ""
  THEN MapGet(im.byContainer, r.container)
  ELSE IF r.releaseChannel # ""
  THEN MapGet(im.byChannel, r.releaseChannel)
  ELSE im.all

WriteErrChannelFirst(r) ==
  IF r = Nil THEN "panic"
  ELSE IF r.releaseChannel = "" THEN "releaseChannel"
  ELSE IF r.container = "" THEN "container"
  ELSE IF r.imagePath = "" THEN "image_path"
  ELSE "nil"

WriteErrNoImageCheck(r) ==
  IF r = Nil THEN "panic"
  ELSE IF r.container = "" THEN "container"
  ELSE IF r.releaseChannel = "" THEN "releaseChannel"
  ELSE "nil"

\* the error Write returns: the field its message names, or "nil". Write's
\* first statement reads r.Container: on a nil r it panics, before any check
\* and any append.
WriteErr(r) ==
  IF r = Nil THEN "panic"
  ELSE IF r.container = "" THEN "container"
  ELSE IF r.releaseChannel = "" THEN "releaseChannel"
  ELSE IF r.imagePath = "" THEN "image_path"
  ELSE "nil"

InsertSkipsEmptyChannelList(im, r) ==
  [all |-> Append(im.all, r),
   byContainer |->
     MapPut(im.byContainer, r.container, Append(MapGet(im.byContainer, r.container), r)),
   byChannel |->
     IF r.releaseChannel \in DOMAIN im.byChannel
     THEN MapPut(im.byChannel, r.releaseChannel, Append(im.byChannel[r.releaseChannel], r))
     ELSE MapPut(im.byChannel, r.releaseChannel, <<>>),
   byBoth |-> MapPut(im.byBoth, ToKey(r), r)]

InsertKeepsFirstByKey(im, r) ==
  [all |-> Append(im.all, r),
   byContainer |->
     MapPut(im.byContainer, r.container, Append(MapGet(im.byContainer, r.container), r)),
   byChannel |->
     MapPut(im.byChannel, r.releaseChannel, Append(MapGet(im.byChannel, r.releaseChannel), r)),
   byBoth |-> IF ToKey(r) \in DOMAIN im.byBoth THEN im.byBoth
              ELSE MapPut(im.byBoth, ToKey(r), r)]

InsertPrepends(im, r) ==
  [all |-> Append(im.all, r),
   byContainer |->
     MapPut(im.byContainer, r.container, <<r>> \o MapGet(im.byContainer, r.container)),
   byChannel |->
     MapPut(im.byChannel, r.releaseChannel, <<r>> \o MapGet(im.byChannel, r.releaseChannel)),
   byBoth |-> MapPut(im.byBoth, ToKey(r), r)]

InsertDedupByKey(im, r) ==
  IF ToKey(r) \in DOMAIN im.byBoth
  THEN [im EXCEPT !.byBoth = MapPut(im.byBoth, ToKey(r), r)]
  ELSE [all |-> Append(im.all, r),
        byContainer |->
          MapPut(im.byContainer, r.container, Append(MapGet(im.byContainer, r.container), r)),
        byChannel |->
          MapPut(im.byChannel, r.releaseChannel,
                 Append(MapGet(im.byChannel, r.releaseChannel), r)),
        byBoth |-> MapPut(im.byBoth, ToKey(r), r)]

\* the four appends of Write
Insert(im, r) ==
  [all |-> Append(im.all, r),
   byContainer |->
     MapPut(im.byContainer, r.container, Append(MapGet(im.byContainer, r.container), r)),
   byChannel |->
     MapPut(im.byChannel, r.releaseChannel, Append(MapGet(im.byChannel, r.releaseChannel), r)),
   byBoth |-> MapPut(im.byBoth, ToKey(r), r)]

WriteAppendsBeforeCheck(im, r) ==
  IF WriteErr(r) = "container" THEN im
  ELSE IF WriteErr(r) = "nil" THEN Insert(im, r)
  ELSE [im EXCEPT !.all = Append(im.all, r)]

\* the store after Write(r), returned or panicked
Write(im, r) == IF WriteErr(r) # "nil" THEN im ELSE Insert(im, r)

\* ------------------------------------------------- the backing file's bytes

\* A JSON document is modelled by what json.Unmarshal reads of it: whether it
\* parses into the target struct, whether it has a "releases" list, and the
\* list's elements, each an object holding some of the three string fields,
\* or the literal null.

\* the JSON literal null as an element of the list
JNull == [null |-> TRUE]

\* a field of a decoded object: its string, or Go's zero value when absent
Field(j, k) == IF k \in DOMAIN j THEN j[k] ELSE ""

\* one element of the list as json.Unmarshal decodes it into a *Release:
\* null leaves the pointer nil
Decode(j) ==
  IF j = JNull
  THEN Nil
  ELSE [container |-> Field(j, "container"),
        imagePath |-> Field(j, "imagePath"),
        releaseChannel |-> Field(j, "releaseChannel")]

\* releasesIn.Releases after json.Unmarshal(data, &releasesIn) returned nil
Unmarshal(data) ==
  IF data.hasReleases
  THEN [i \in 1..Len(data.releases) |-> Decode(data.releases[i])]
  ELSE <<>>

Garbage == [wellFormed |-> FALSE, hasReleases |-> FALSE, releases |-> <<>>]
NoList == [wellFormed |-> TRUE, hasReleases |-> FALSE, releases |-> <<>>]
Doc(list) == [wellFormed |-> TRUE, hasReleases |-> TRUE, releases |-> list]

J(c, ch, img) == [container |-> c, releaseChannel |-> ch, imagePath |-> img]

\* the contents the backing file takes
BlobPair == Doc(<<J("a", "dev", "i1"), J("b", "dev", "i1")>>)
BlobMixed == Doc(<<J("a", "dev", "i1"), [container |-> "b", releaseChannel |-> "dev"],
                   J("a", "dev", "i2")>>)
BlobNull == Doc(<<JNull, J("b", "dev", "i2")>>)
Blobs == {Garbage, NoList, BlobPair, BlobMixed, BlobNull}

\* the store an undisturbed run of loadDatabase's loop builds: the loop goes
\* through the whole list, or ends where Write panics
RECURSIVE WriteAll(_, _)
WriteAll(im, rs) ==
  IF rs = <<>> \/ WriteErr(Head(rs)) = "panic"
  THEN im
  ELSE WriteAll(Write(im, Head(rs)), Tail(rs))

BuiltFrom(data) == WriteAll(NewInMemoryStore, Unmarshal(data))

\* how loadDatabase(data) ends: the error it returns ("nil" for none), or
\* "panic" when the loop meets a nil *Release
LoadErr(data) ==
  IF ~data.wellFormed THEN "unmarshal"
  ELSE IF \E i \in DOMAIN Unmarshal(data) : Unmarshal(data)[i] = Nil THEN "panic"
  ELSE "nil"

\* The entries loadDatabase(data) writes to the log at error level. An entry
\* is written by Msg: the parse error gets one. In the loop the event of a
\* Write error is built, Error().Err(err), and never sent, so a record that
\* Write does not take leaves no entry.
LoadLogs(data) ==
  IF ~data.wellFormed
  THEN <<[msg |-> "error unmarshalling input", err |-> "unmarshal"]>>
  ELSE <<>>

\* ------------------------------------------------------------------ state

VARIABLES
  db,        \* the store s.db points at (StoreSpec: the store under test)
  dbId,      \* which store object that is: the number of NewInMemoryStore calls
  lastMod,   \* s.lastMod, the watermark; 0 is the zero time.Time
  file,      \* the backing file: what os.Stat and os.ReadFile meet
  pc,        \* per goroutine: where it is in ReloadDatabase
  statMod,   \* per goroutine: stat.ModTime() of its call
  data,      \* per goroutine: the bytes its call read
  idx,       \* per goroutine: the next element of loadDatabase's range loop
  res,       \* per goroutine: how its last ReloadDatabase call ended
  old,       \* per goroutine: the store its loadDatabase replaced
  gen,       \* per goroutine: which store object its loadDatabase made (0: none)
  nReloads,  \* ReloadDatabase calls started so far
  nWrites,   \* StoreSpec: Write calls that returned nil
  lastCall,  \* the Write, Query, load or New of the last step and what it returned
  crashed,   \* the process is over: os.Exit in main, a panic nothing recovers, a
             \* runtime fatal error, or main returning after Run
  ctxDone,   \* the context handed to Run is cancelled
  run,       \* Run: "called", "watching" once the watcher is started, "serving"
             \* while it blocks in its select, else what it returned
  closeChan  \* s.closeChan: "open", or "closed" by the listener's goroutine

vars ==
  <<db, dbId, lastMod, file, pc, statMod, data, idx, res, old, gen, nReloads, nWrites,
    lastCall, crashed, ctxDone, run, closeChan>>

runVars == <<ctxDone, run, closeChan>>

srvVars ==
  <<dbId, lastMod, file, pc, statMod, data, idx, res, old, gen, nReloads, crashed, ctxDone,
    run, closeChan>>

\* the watcher goroutine of startFileWatcher and one reloadHandler request
Threads == {"timer", "manual"}

NoCall == [kind |-> "none"]

\* --------------------------------------------- StoreSpec: the Store interface

StoreInit ==
  /\ db = NewInMemoryStore
  /\ dbId = 1
  /\ lastMod = 0
  /\ file = [state |-> "ok", mtime |-> 1, content |-> NoList, fresh |-> FALSE, quiet |-> FALSE]
  /\ pc = [t \in Threads |-> "idle"]
  /\ statMod = [t \in Threads |-> 0]
  /\ data = [t \in Threads |-> NoList]
  /\ idx = [t \in Threads |-> 0]
  /\ res = [t \in Threads |-> "none"]
  /\ old = [t \in Threads |-> NewInMemoryStore]
  /\ gen = [t \in Threads |-> 0]
  /\ nReloads = 0
  /\ nWrites = 0
  /\ ctxDone = FALSE
  /\ run = "serving"
  /\ closeChan = "open"
  /\ lastCall = NoCall
  /\ crashed = FALSE

\* im.Write(r)
StoreWrite(r) ==
  /\ WriteErr(r) = "nil" => nWrites < MaxWrites
  /\ db' = Write(db, r)
  /\ nWrites' = IF WriteErr(r) = "nil" THEN nWrites + 1 ELSE nWrites
  /\ lastCall' = [kind |-> "write", r |-> r, err |-> WriteErr(r)]
  /\ UNCHANGED srvVars

\* im.Query(q)
StoreQuery(q) ==
  /\ lastCall' = [kind |-> "query", r |-> q, out |-> Query(db, q)]
  /\ UNCHANGED <<db, nWrites>>
  /\ UNCHANGED srvVars

\* the documents StoreSpec loads: those of Spec, a list of failing records
\* only, an empty list, lists that start or end with a failing record, and
\* a list with a null between two records
LoadBlobs ==
  Blobs \cup
    {Doc(<<>>),
     Doc(<<J("a", "dev", "i1"), JNull, J("b", "prod", "i1")>>),
     Doc(<<[container |-> "a", imagePath |-> "i1"]>>),
     Doc(<<[releaseChannel |-> "dev"], J("b", "prod", "i2")>>),
     Doc(<<J("a", "dev", "i1"), J("a", "prod", "i1"), J("", "dev", "i1")>>)}

\* loadDatabase(b) run with no other goroutine, as New runs it; nWrites
\* counts the Writes of the loop that returned nil
StoreLoad(b) ==
  /\ db' = IF b.wellFormed THEN BuiltFrom(b) ELSE NewInMemoryStore
  /\ dbId' = dbId
  /\ nWrites' =
       IF b.wellFormed
       THEN Cardinality({i \in DOMAIN Unmarshal(b) :
                          /\ \A j \in 1..i : Unmarshal(b)[j] # Nil
                          /\ WriteErr(Unmarshal(b)[i]) = "nil"})
       ELSE 0
  /\ lastCall' = [kind |-> "load", data |-> b, err |-> LoadErr(b), logs |-> LoadLogs(b)]
  /\ UNCHANGED <<lastMod, file, pc, statMod, data, idx, res, old, gen, nReloads, crashed>>
  /\ UNCHANGED runVars

StoreNext ==
  \/ \E r \in AllReleases : StoreWrite(r)
  \/ \E q \in Filters : StoreQuery(q)
  \/ \E b \in LoadBlobs : StoreLoad(b)

StoreSpec == StoreInit /\ [][StoreNext]_vars

\* ------------------------------------------------- Spec: package server

NotBefore(t, u) == t >= u

\* t.After(u) of time.Time, times being numbers
After(t, u) == t > u

\* The backing file is there with some bytes, or os.Stat and os.ReadFile both
\* fail on it (it was removed, or its directory cannot be searched). A file
\* that stats and cannot be read is met as the file vanishing between the two.
\* fresh records how the file got there: its last change gave it parseable
\* bytes and a newer modification time, and nothing touched it since.
\* quiet records the other kind of change: the last one gave the file other
\* bytes under the modification time it had, which was not after the
\* watermark, while no call of ReloadDatabase was between its os.Stat and its
\* os.ReadFile.
Files ==
  [state : {"ok"}, mtime : 1..MaxTime, content : Blobs, fresh : BOOLEAN, quiet : BOOLEAN]
    \cup [state : {"nostat"}, mtime : 1..MaxTime, content : {NoList}, fresh : {FALSE},
          quiet : {FALSE}]

NewKeepsZeroTime(data0, f) ==
  [err |-> LoadErr(data0),
   lastMod |-> 0,
   db |-> IF data0.wellFormed THEN BuiltFrom(data0) ELSE NewInMemoryStore]

NewIgnoresLoadError(data0, f) ==
  [err |-> "nil",
   lastMod |-> IF f.state = "nostat" THEN 0 ELSE f.mtime,
   db |-> IF data0.wellFormed THEN BuiltFrom(data0) ELSE NewInMemoryStore]

\* New(data0, dbFile) with the file as f: the error it returns, and the
\* watermark and the store of the srv it built
New(data0, f) ==
  [err |-> LoadErr(data0),
   lastMod |-> IF f.state = "nostat" THEN 0 ELSE f.mtime,
   db |-> IF data0.wellFormed THEN BuiltFrom(data0) ELSE NewInMemoryStore]

\* The state main leaves: it read data0 from the file and called New, which
\* stat'ed the file (keeping the zero time when the stat failed) and ran
\* loadDatabase(data0). The file may have been rewritten since main read it.
\* When New returns an error main calls os.Exit(2), and a panic in
\* loadDatabase ends main's goroutine: either way the process is over.
Init ==
  /\ file \in {f \in Files : f.mtime = 1 /\ ~f.fresh /\ ~f.quiet}
  /\ \E data0 \in Blobs :
       /\ db = New(data0, file).db
       /\ lastMod = New(data0, file).lastMod
       /\ lastCall = [kind |-> "new", data |-> data0, err |-> New(data0, file).err]
       /\ crashed = (New(data0, file).err # "nil")
  /\ dbId = 1
  /\ pc = [t \in Threads |-> "idle"]
  /\ statMod = [t \in Threads |-> 0]
  /\ data = [t \in Threads |-> NoList]
  /\ idx = [t \in Threads |-> 0]
  /\ res = [t \in Threads |-> "none"]
  /\ old = [t \in Threads |-> NewInMemoryStore]
  /\ gen = [t \in Threads |-> 0]
  /\ nReloads = 0
  /\ nWrites = 0
  /\ ctxDone = FALSE
  /\ run = "serving"
  /\ closeChan = "open"

\* whoever maintains the backing file rewrites, touches, removes or protects it
ModifyFile(f) ==
  /\ ~crashed
  /\ <<f.state, f.mtime, f.content>> # <<file.state, file.mtime, file.content>>
  /\ f.mtime \in {file.mtime, file.mtime + 1}
  /\ f.fresh = (f.state = "ok" /\ f.content.wellFormed /\ f.mtime = file.mtime + 1)
  /\ f.quiet = (/\ f.state = "ok" /\ file.state = "ok"
                /\ f.mtime = file.mtime
                /\ ~After(f.mtime, lastMod)
                /\ \A t \in Threads : pc[t] \notin {"stated", "checked"})
  /\ file' = f
  /\ lastCall' = NoCall
  /\ UNCHANGED <<db, dbId, lastMod, pc, statMod, data, idx, res, old, gen, nReloads, nWrites,
                 crashed>>
  /\ UNCHANGED runVars

\* a goroutine's call of ReloadDatabase returns r; its locals are gone, but
\* for the bytes and the store of a reload that went through, kept for the
\* record until its next call
Return(t, r) ==
  /\ pc' = [pc EXCEPT ![t] = "idle"]
  /\ res' = [res EXCEPT ![t] = r]
  /\ statMod' = [statMod EXCEPT ![t] = 0]
  /\ data' = [data EXCEPT ![t] = IF r = "reloaded" THEN data[t] ELSE NoList]
  /\ idx' = [idx EXCEPT ![t] = 0]
  /\ old' = [old EXCEPT ![t] = NewInMemoryStore]
  /\ gen' = [gen EXCEPT ![t] = IF r = "reloaded" THEN gen[t] ELSE 0]

\* ReloadDatabase is entered (a tick of the watcher's ticker, or POST
\* /v1/reload): os.Stat(s.dbFile)
StatUpTo(t, n) ==
  /\ ~crashed
  /\ pc[t] = "idle"
  /\ nReloads < n
  /\ nReloads' = nReloads + 1
  /\ IF file.state = "nostat"
     THEN Return(t, "statErr")
     ELSE /\ pc' = [pc EXCEPT ![t] = "stated"]
          /\ statMod' = [statMod EXCEPT ![t] = file.mtime]
          /\ data' = [data EXCEPT ![t] = NoList]
          /\ gen' = [gen EXCEPT ![t] = 0]
          /\ res' = [res EXCEPT ![t] = "running"]
          /\ UNCHANGED <<idx, old>>
  /\ lastCall' = NoCall
  /\ UNCHANGED <<db, dbId, lastMod, file, nWrites, crashed>>
  /\ UNCHANGED runVars

Stat(t) == StatUpTo(t, MaxReloads)

\* if !stat.ModTime().After(s.lastMod) { return nil }
Check(t) ==
  /\ ~crashed
  /\ pc[t] = "stated"
  /\ IF After(statMod[t], lastMod)
     THEN /\ pc' = [pc EXCEPT ![t] = "checked"]
          /\ UNCHANGED <<statMod, data, res, idx, old, gen>>
     ELSE Return(t, "unchanged")
  /\ lastCall' = NoCall
  /\ UNCHANGED <<db, dbId, lastMod, file, nReloads, nWrites, crashed>>
  /\ UNCHANGED runVars

ReadFileLoadsOnError(t) ==
  /\ ~crashed
  /\ pc[t] = "checked"
  /\ pc' = [pc EXCEPT ![t] = "read"]
  /\ data' = [data EXCEPT ![t] = IF file.state # "ok" THEN Garbage ELSE file.content]
  /\ lastCall' = NoCall
  /\ UNCHANGED <<db, dbId, lastMod, file, statMod, idx, res, old, gen, nReloads, nWrites,
                 crashed>>
  /\ UNCHANGED runVars

\* os.ReadFile(s.dbFile)
ReadFile(t) ==
  /\ ~crashed
  /\ pc[t] = "checked"
  /\ IF file.state # "ok"
     THEN Return(t, "readErr")
     ELSE /\ pc' = [pc EXCEPT ![t] = "read"]
          /\ data' = [data EXCEPT ![t] = file.content]
          /\ UNCHANGED <<statMod, res, idx, old, gen>>
  /\ lastCall' = NoCall
  /\ UNCHANGED <<db, dbId, lastMod, file, nReloads, nWrites, crashed>>
  /\ UNCHANGED runVars

LoadBeginSwallowsParseError(t) ==
  /\ ~crashed
  /\ pc[t] = "read"
  /\ db' = NewInMemoryStore
  /\ dbId' = dbId + 1
  /\ IF data[t].wellFormed
     THEN /\ pc' = [pc EXCEPT ![t] = "loading"]
          /\ idx' = [idx EXCEPT ![t] = 1]
          /\ old' = [old EXCEPT ![t] = db]
          /\ gen' = [gen EXCEPT ![t] = dbId + 1]
          /\ UNCHANGED <<statMod, data, res>>
     ELSE Return(t, "reloaded")
  /\ lastCall' = NoCall
  /\ UNCHANGED <<lastMod, file, nReloads, nWrites, crashed>>
  /\ UNCHANGED runVars

\* loadDatabase up to its loop: s.db = db.NewInMemoryStore(s.ll), then
\* json.Unmarshal, whose error ends loadDatabase and ReloadDatabase
LoadBegin(t) ==
  /\ ~crashed
  /\ pc[t] = "read"
  /\ db' = NewInMemoryStore
  /\ dbId' = dbId + 1
  /\ IF data[t].wellFormed
     THEN /\ pc' = [pc EXCEPT ![t] = "loading"]
          /\ idx' = [idx EXCEPT ![t] = 1]
          /\ old' = [old EXCEPT ![t] = db]
          /\ gen' = [gen EXCEPT ![t] = dbId + 1]
          /\ UNCHANGED <<statMod, data, res>>
     ELSE Return(t, "unmarshalErr")
  /\ lastCall' = NoCall
  /\ UNCHANGED <<lastMod, file, nReloads, nWrites, crashed>>
  /\ UNCHANGED runVars

\* one iteration of loadDatabase's loop: s.db.Write(r) on the store s.db
\* points at now, its error dropped
LoadWrite(t) ==
  /\ ~crashed
  /\ pc[t] = "loading"
  /\ idx[t] <= Len(Unmarshal(data[t]))
  /\ Unmarshal(data[t])[idx[t]] # Nil
  /\ db' = Write(db, Unmarshal(data[t])[idx[t]])
  /\ idx' = [idx EXCEPT ![t] = idx[t] + 1]
  /\ lastCall' = NoCall
  /\ UNCHANGED <<dbId, lastMod, file, pc, statMod, data, res, old, gen, nReloads, nWrites,
                 crashed>>
  /\ UNCHANGED runVars

\* s.db.Write(r) on a nil r panics. Nothing recovers in the watcher's
\* goroutine, so there the panic ends the process. In the goroutine serving
\* POST /v1/reload net/http recovers and drops the connection: the call is
\* abandoned where it stood, the store it was filling stays published and the
\* watermark is not set.
LoadWritePanic(t) ==
  /\ ~crashed
  /\ pc[t] = "loading"
  /\ idx[t] <= Len(Unmarshal(data[t]))
  /\ Unmarshal(data[t])[idx[t]] = Nil
  /\ IF t = "timer"
     THEN /\ crashed' = TRUE
          /\ UNCHANGED <<pc, statMod, data, idx, res, old, gen>>
     ELSE /\ Return(t, "panic")
          /\ UNCHANGED crashed
  /\ lastCall' = NoCall
  /\ UNCHANGED <<db, dbId, lastMod, file, nReloads, nWrites>>
  /\ UNCHANGED runVars

\* No lock guards s.db or the store's maps. A Write that runs while another
\* goroutine is in its own loop on the same store either takes effect as
\* above or is caught by the runtime ("fatal error: concurrent map writes"),
\* which ends the process.
LoadWriteRace(t) ==
  /\ ~crashed
  /\ pc[t] = "loading"
  /\ idx[t] <= Len(Unmarshal(data[t]))
  /\ WriteErr(Unmarshal(data[t])[idx[t]]) = "nil"
  /\ \E u \in Threads \ {t} : pc[u] = "loading" /\ idx[u] <= Len(Unmarshal(data[u]))
  /\ crashed' = TRUE
  /\ lastCall' = NoCall
  /\ UNCHANGED <<db, dbId, lastMod, file, pc, statMod, data, idx, res, old, gen, nReloads,
                 nWrites>>
  /\ UNCHANGED runVars

\* the loop is over, loadDatabase returns nil: s.lastMod = stat.ModTime()
SetLastMod(t) ==
  /\ ~crashed
  /\ pc[t] = "loading"
  /\ idx[t] > Len(Unmarshal(data[t]))
  /\ lastMod' = statMod[t]
  /\ Return(t, "reloaded")
  /\ lastCall' = NoCall
  /\ UNCHANGED <<db, dbId, file, nReloads, nWrites, crashed>>
  /\ UNCHANGED runVars

\* reloadHandler: the status it answers when ReloadDatabase returned r
ReloadStatus(r) ==
  IF r \in {"statErr", "readErr", "unmarshalErr"} THEN 500 ELSE 200

\* the requests GET /v1/releases is sent in Spec: each of Query's four cases
F(c, ch) == [container |-> c, imagePath |-> "", releaseChannel |-> ch]
Requests == {F("a", "dev"), F("b", "dev"), F("b", ""), F("", "dev"), F("", "")}

QueryHandlerAlwaysFound(q) ==
  /\ ~crashed
  /\ lastCall' = [kind |-> "query", r |-> q, out |-> Query(db, q), status |-> 200]
  /\ UNCHANGED <<db, dbId, lastMod, file, pc, statMod, data, idx, res, old, gen, nReloads,
                 nWrites, crashed>>
  /\ UNCHANGED runVars

QueryHandlerWaitsForReload(q) ==
  /\ ~crashed
  /\ \A t \in Threads : pc[t] = "idle"
  /\ lastCall' = [kind |-> "query", r |-> q, out |-> Query(db, q),
                  status |-> IF Len(Query(db, q)) > 0 THEN 200 ELSE 404]
  /\ UNCHANGED <<db, dbId, lastMod, file, pc, statMod, data, idx, res, old, gen, nReloads,
                 nWrites, crashed>>
  /\ UNCHANGED runVars

QueryHandlerStoresMiss(q) ==
  /\ ~crashed
  /\ lastCall' = [kind |-> "query", r |-> q, out |-> Query(db, q),
                  status |-> IF Len(Query(db, q)) > 0 THEN 200 ELSE 404]
  /\ db' = IF q.container # "" /\ q.releaseChannel = "" /\ Len(Query(db, q)) = 0
           THEN [db EXCEPT !.byContainer = MapPut(db.byContainer, q.container, <<>>)]
           ELSE db
  /\ UNCHANGED <<dbId, lastMod, file, pc, statMod, data, idx, res, old, gen, nReloads,
                 nWrites, crashed>>
  /\ UNCHANGED runVars

\* queryHandler: s.db.Query(query), 200 when the result is non-empty, else 404
QueryHandler(q) ==
  /\ ~crashed
  /\ lastCall' = [kind |-> "query", r |-> q, out |-> Query(db, q),
                  status |-> IF Len(Query(db, q)) > 0 THEN 200 ELSE 404]
  /\ UNCHANGED <<db, dbId, lastMod, file, pc, statMod, data, idx, res, old, gen, nReloads,
                 nWrites, crashed>>
  /\ UNCHANGED runVars

\* A Query that reads one of the maps while a loop is writing them either
\* answers as above or is caught by the runtime ("fatal error: concurrent map
\* read and map write").
QueryRace(q) ==
  /\ ~crashed
  /\ q.container # "" \/ q.releaseChannel # ""
  /\ \E t \in Threads :
       /\ pc[t] = "loading"
       /\ idx[t] <= Len(Unmarshal(data[t]))
       /\ WriteErr(Unmarshal(data[t])[idx[t]]) = "nil"
  /\ crashed' = TRUE
  /\ lastCall' = NoCall
  /\ UNCHANGED <<db, dbId, lastMod, file, pc, statMod, data, idx, res, old, gen, nReloads,
                 nWrites>>
  /\ UNCHANGED runVars

Next ==
  \/ \E f \in Files : ModifyFile(f)
  \/ \E t \in Threads : Stat(t)
  \/ \E t \in Threads : Check(t)
  \/ \E t \in Threads : ReadFile(t)
  \/ \E t \in Threads : LoadBegin(t)
  \/ \E t \in Threads : LoadWrite(t)
  \/ \E t \in Threads : LoadWritePanic(t)
  \/ \E t \in Threads : LoadWriteRace(t)
  \/ \E t \in Threads : SetLastMod(t)
  \/ \E q \in Requests : QueryHandler(q)
  \/ \E q \in Requests : QueryRace(q)

Spec == Init /\ [][Next]_vars

\* ---------------------------------- ReloadSpec: the reload calls by themselves

\* the watcher's ticks and the POST /v1/reload requests, up to MaxCalls calls
\* of ReloadDatabase, no query looking on
ReloadNext ==
  \/ \E f \in Files : ModifyFile(f)
  \/ \E t \in Threads : StatUpTo(t, MaxCalls)
  \/ \E t \in Threads : Check(t)
  \/ \E t \in Threads : ReadFile(t)
  \/ \E t \in Threads : LoadBegin(t)
  \/ \E t \in Threads : LoadWrite(t)
  \/ \E t \in Threads : LoadWritePanic(t)
  \/ \E t \in Threads : LoadWriteRace(t)
  \/ \E t \in Threads : SetLastMod(t)

ReloadSpec == Init /\ [][ReloadNext]_vars

\* ------------------------------------------- LifeSpec: Run until it returns

\* the context handed to Run is cancelled
Cancel ==
  /\ ~crashed
  /\ ~ctxDone
  /\ ctxDone' = TRUE
  /\ lastCall' = NoCall
  /\ UNCHANGED <<db, dbId, lastMod, file, pc, statMod, data, idx, res, old, gen, nReloads,
                 nWrites, crashed, run, closeChan>>

\* the watcher's select takes <-ctx.Done(): the goroutine returns. The select
\* is reached between two calls of ReloadDatabase only, a call under way runs
\* to its end first; and with a tick waiting as well the select may take the
\* tick, so Stat stays possible for the watcher until it has returned.
WatcherExit ==
  /\ ~crashed
  /\ ctxDone
  /\ pc["timer"] = "idle"
  /\ pc' = [pc EXCEPT !["timer"] = "exited"]
  /\ lastCall' = NoCall
  /\ UNCHANGED <<db, dbId, lastMod, file, statMod, data, idx, res, old, gen, nReloads,
                 nWrites, crashed, ctxDone, run, closeChan>>

RunReturnsUncancelled ==
  /\ ~crashed
  /\ run = "serving"
  /\ pc["manual"] = "idle"
  /\ run' = "nil"
  /\ crashed' = TRUE
  /\ lastCall' = NoCall
  /\ UNCHANGED <<db, dbId, lastMod, file, pc, statMod, data, idx, res, old, gen, nReloads,
                 nWrites, ctxDone, closeChan>>

\* Run's select takes <-ctx.Done(): server.Shutdown, which waits for the
\* requests in flight, then return nil; errgroup's Wait returns and main
\* with it, which ends the process and every goroutine still running.
RunShutdown ==
  /\ ~crashed
  /\ ctxDone
  /\ run = "serving"
  /\ pc["manual"] = "idle"
  /\ run' = "nil"
  /\ crashed' = TRUE
  /\ lastCall' = NoCall
  /\ UNCHANGED <<db, dbId, lastMod, file, pc, statMod, data, idx, res, old, gen, nReloads,
                 nWrites, ctxDone, closeChan>>

\* the service with its watcher and its query endpoint, no POST /v1/reload
\* arriving, from startup until Run has returned
LifeNext ==
  \/ \E f \in Files : ModifyFile(f)
  \/ Stat("timer")
  \/ Check("timer")
  \/ ReadFile("timer")
  \/ LoadBegin("timer")
  \/ LoadWrite("timer")
  \/ LoadWritePanic("timer")
  \/ SetLastMod("timer")
  \/ \E q \in Requests : QueryHandler(q)
  \/ \E q \in Requests : QueryRace(q)
  \/ Cancel
  \/ WatcherExit
  \/ RunShutdown

LifeSpec == Init /\ [][LifeNext]_vars

\* ------------------------------------------------ RunSpec: Run from its call

\* main has built the srv as in Init and calls Run: no watcher yet, no listener
RunInit ==
  /\ file \in {f \in Files : f.mtime = 1 /\ ~f.fresh /\ ~f.quiet}
  /\ \E data0 \in Blobs :
       /\ db = New(data0, file).db
       /\ lastMod = New(data0, file).lastMod
       /\ lastCall = [kind |-> "new", data |-> data0, err |-> New(data0, file).err]
       /\ crashed = (New(data0, file).err # "nil")
  /\ dbId = 1
  /\ pc = [t \in Threads |-> IF t = "timer" THEN "unstarted" ELSE "idle"]
  /\ statMod = [t \in Threads |-> 0]
  /\ data = [t \in Threads |-> NoList]
  /\ idx = [t \in Threads |-> 0]
  /\ res = [t \in Threads |-> "none"]
  /\ old = [t \in Threads |-> NewInMemoryStore]
  /\ gen = [t \in Threads |-> 0]
  /\ nReloads = 0
  /\ nWrites = 0
  /\ ctxDone = FALSE
  /\ run = "called"
  /\ closeChan = "open"

\* s.startFileWatcher(ctx): the ticker and the watcher's goroutine
StartWatcher ==
  /\ ~crashed
  /\ run = "called"
  /\ run' = "watching"
  /\ pc' = [pc EXCEPT !["timer"] = "idle"]
  /\ lastCall' = NoCall
  /\ UNCHANGED <<db, dbId, lastMod, file, statMod, data, idx, res, old, gen, nReloads,
                 nWrites, crashed, ctxDone, closeChan>>

\* the routes are registered and the goroutine of server.ListenAndServe is
\* started; Run goes into its select
Listen ==
  /\ ~crashed
  /\ run = "watching"
  /\ run' = "serving"
  /\ lastCall' = NoCall
  /\ UNCHANGED <<db, dbId, lastMod, file, pc, statMod, data, idx, res, old, gen, nReloads,
                 nWrites, crashed, ctxDone, closeChan>>

\* ListenAndServe returns an error other than http.ErrServerClosed (the port
\* is taken, the listener breaks): close(s.closeChan)
ListenerFails ==
  /\ ~crashed
  /\ run = "serving"
  /\ closeChan = "open"
  /\ closeChan' = "closed"
  /\ lastCall' = NoCall
  /\ UNCHANGED <<db, dbId, lastMod, file, pc, statMod, data, idx, res, old, gen, nReloads,
                 nWrites, crashed, ctxDone, run>>

\* Run's select takes <-s.closeChan: return errors.New("fatal http server
\* error"); errgroup's Wait returns and main with it
RunFatal ==
  /\ ~crashed
  /\ run = "serving"
  /\ closeChan = "closed"
  /\ run' = "fatal"
  /\ crashed' = TRUE
  /\ lastCall' = NoCall
  /\ UNCHANGED <<db, dbId, lastMod, file, pc, statMod, data, idx, res, old, gen, nReloads,
                 nWrites, ctxDone, closeChan>>

\* GET /v1/releases reaches queryHandler while the listener is up
Serve(q) ==
  /\ run = "serving"
  /\ closeChan = "open"
  /\ QueryHandler(q)

RunNext ==
  \/ \E f \in Files : ModifyFile(f)
  \/ StartWatcher
  \/ Listen
  \/ Stat("timer")
  \/ Check("timer")
  \/ ReadFile("timer")
  \/ LoadBegin("timer")
  \/ LoadWrite("timer")
  \/ LoadWritePanic("timer")
  \/ SetLastMod("timer")
  \/ \E q \in Requests : Serve(q)
  \/ Cancel
  \/ WatcherExit
  \/ ListenerFails
  \/ RunShutdown
  \/ RunFatal

RunSpec == RunInit /\ [][RunNext]_vars

\* ================================================================== claims

\* a Release that breaks the data model's invariant: some field is empty
HasEmptyField(r) ==
  r # Nil /\ (r.container = "" \/ r.releaseChannel = "" \/ r.imagePath = "")

SameKey(r1, r2) ==
  r1.container = r2.container /\ r1.releaseChannel = r2.releaseChannel

\* the filter naming both fields of r
BothOf(r) ==
  [container |-> r.container, imagePath |-> "", releaseChannel |-> r.releaseChannel]

\* every Release a store holds, in the full sequence or in an index
Held(im) ==
  {im.all[i] : i \in DOMAIN im.all}
    \cup UNION {{im.byContainer[c][i] : i \in DOMAIN im.byContainer[c]} : c \in DOMAIN im.byContainer}
    \cup UNION {{im.byChannel[c][i] : i \in DOMAIN im.byChannel[c]} : c \in DOMAIN im.byChannel}
    \cup {im.byBoth[k] : k \in DOMAIN im.byBoth}

\* C1: when a reload finds a newer file that does not parse, the store that
\* answered queries before still answers them: every Query returns what it
\* returned before the failed load.
C1_FailedParseKeepsStore ==
  [][\A t \in Threads :
       (pc[t] = "read" /\ ~data[t].wellFormed /\ pc'[t] = "idle")
         => (res'[t] = "unmarshalErr" /\ \A q \in Filters : Query(db', q) = Query(db, q))]_vars

\* C2: while a rebuild is under way a Query sees a complete generation: what
\* it returns is what the store the rebuild replaced returns, or what the
\* store fully loaded from the rebuild's bytes returns.
C2_QuerySeesCompleteGeneration ==
  \A t \in Threads :
    pc[t] = "loading"
      => \A q \in Filters :
           Query(db, q) \in {Query(old[t], q), Query(BuiltFrom(data[t]), q)}

\* C3: when a timer-driven and an on-demand reload of the same bytes have
\* both finished, the published store is the store one load of those bytes
\* builds.
C3_OverlapEqualsSingleReload ==
  (/\ ~crashed
   /\ \A t \in Threads : pc[t] = "idle" /\ res[t] = "reloaded"
   /\ data["timer"] = data["manual"])
    => db = BuiltFrom(data["timer"])

\* C4: when ReloadDatabase has stat'ed a modification time that is not
\* strictly newer than the watermark, it returns nil at once: the store
\* object, its contents and the watermark stay, and the file is not read.
C4_UnchangedFileNoRebuild ==
  [][\A t \in Threads :
       (pc[t] = "stated" /\ statMod[t] <= lastMod /\ pc'[t] # "stated")
         => /\ pc'[t] = "idle" /\ res'[t] = "unchanged"
            /\ db' = db /\ dbId' = dbId /\ lastMod' = lastMod
            /\ data'[t] = NoList]_vars

\* a reload returned "unchanged" while the file, its modification time not
\* newer than the watermark, held records the store does not hold
C4_Witness ==
  /\ pc["timer"] = "idle" /\ res["timer"] = "unchanged"
  /\ res["manual"] = "none"
  /\ file.state = "ok" /\ file.mtime <= lastMod
  /\ file.content.wellFormed
  /\ BuiltFrom(file.content).all # <<>>
  /\ BuiltFrom(file.content) # db
  /\ dbId = 1

\* C5: when the file cannot be stat'ed, or cannot be read after the stat, the
\* call returns that error, and none of its steps touched the store or the
\* watermark.
C5_IOErrorKeepsState ==
  [][/\ (nReloads' # nReloads /\ file.state = "nostat")
          => /\ \E t \in Threads : pc[t] = "idle" /\ pc'[t] = "idle" /\ res'[t] = "statErr"
             /\ pc' = pc
             /\ db' = db /\ dbId' = dbId /\ lastMod' = lastMod
     /\ \A t \in Threads :
          (pc[t] = "checked" /\ file.state # "ok" /\ pc'[t] # "checked")
            => /\ pc'[t] = "idle" /\ res'[t] = "readErr"
               /\ db' = db /\ dbId' = dbId /\ lastMod' = lastMod
     /\ \A t \in Threads :
          (pc[t] \in {"idle", "stated", "checked"} /\ pc'[t] # pc[t])
            => db' = db /\ dbId' = dbId /\ lastMod' = lastMod]_vars

\* one call ended on the stat error and one on the read error, the store
\* still holding its records and the watermark still behind the file
C5_Witness ==
  /\ res["timer"] = "statErr" /\ pc["timer"] = "idle"
  /\ res["manual"] = "readErr" /\ pc["manual"] = "idle"
  /\ Len(db.all) >= 1
  /\ dbId = 1
  /\ lastMod < file.mtime

\* C6: a reload of a newer file that parses publishes the store built from
\* the file's valid records and sets the watermark to the stat'ed time, in
\* one step as seen by other goroutines.
C6_PublishAndWatermarkAtomic ==
  [][\A t \in Threads :
       (pc[t] = "read" /\ data[t].wellFormed /\ pc'[t] # "read")
         => (db' = BuiltFrom(data[t]) /\ lastMod' = statMod[t])]_vars

\* C7: when Write(r1) and then Write(r2) both succeed on a store and r1, r2
\* have distinct composite keys, Query with r1's container and
\* releaseChannel returns exactly <<r1>>.
C7_QueryAfterTwoWrites ==
  [][(/\ lastCall.kind = "write" /\ lastCall.err = "nil"
      /\ lastCall'.kind = "write" /\ lastCall'.err = "nil"
      /\ nWrites' = nWrites + 1
      /\ ~SameKey(lastCall.r, lastCall'.r))
     => Query(db', BothOf(lastCall.r)) = <<lastCall.r>>]_vars

\* two Writes with distinct keys have just succeeded on a store that already
\* held a Release, and the first of the two is what the exact query finds
C7_Witness ==
  /\ lastCall.kind = "write" /\ lastCall.err = "nil"
  /\ Len(db.all) >= 3
  /\ LET n == Len(db.all) IN
       /\ db.all[n] = lastCall.r
       /\ ~SameKey(db.all[n - 1], db.all[n])
       /\ db.all[n - 1].container = db.all[n].container
       /\ Query(db, BothOf(db.all[n - 1])) = <<db.all[n - 1]>>

\* C8: a Write of a Release with an empty container, releaseChannel or
\* imagePath returns an error and leaves the full sequence and the three
\* indices as they were.
C8_InvalidWriteLeavesStore ==
  [][(lastCall'.kind = "write" /\ HasEmptyField(lastCall'.r))
     => (lastCall'.err # "nil" /\ db' = db /\ nWrites' = nWrites)]_vars

\* a Write with an empty imagePath only has just failed on a non-empty store
C8_Witness ==
  /\ lastCall.kind = "write"
  /\ lastCall.r.container # "" /\ lastCall.r.releaseChannel # ""
  /\ lastCall.r.imagePath = ""
  /\ lastCall.err # "nil"
  /\ Len(db.all) >= 1

\* C9: no Release with an empty container, releaseChannel or imagePath is in
\* the full sequence or in any of the three indices, after any sequence of
\* Writes and loads.
C9_NoEmptyFieldHeld == \A r \in Held(db) : ~HasEmptyField(r)

\* a load of a document holding a record without imagePath has built a
\* non-empty store
C9_Witness ==
  /\ lastCall.kind = "load"
  /\ \E i \in DOMAIN Unmarshal(lastCall.data) : HasEmptyField(Unmarshal(lastCall.data)[i])
  /\ Len(db.all) >= 1

\* C10: Query with both container and releaseChannel set returns at most one
\* element in every store state, also after one key was written twice.
C10_ExactQueryAtMostOne ==
  \A q \in Filters :
    (q.container # "" /\ q.releaseChannel # "") => Len(Query(db, q)) <= 1

\* one composite key has been written twice and the exact query for it
\* returns the later Release alone
C10_Witness ==
  \E i, j \in DOMAIN db.all :
    /\ i < j
    /\ SameKey(db.all[i], db.all[j])
    /\ db.all[i] # db.all[j]
    /\ Query(db, BothOf(db.all[i])) = <<db.all[j]>>

\* the elements of a sequence that have container c, in the sequence's order
WithContainer(rs, c) ==
  LET Test(r) == r.container = c IN SelectSeq(rs, Test)

\* the elements of a sequence that have releaseChannel ch, in its order
WithChannel(rs, ch) ==
  LET Test(r) == r.releaseChannel = ch IN SelectSeq(rs, Test)

\* the elements of a sequence that Write accepts, in the sequence's order
ValidOf(rs) ==
  LET Test(r) == r # Nil /\ ~HasEmptyField(r) IN SelectSeq(rs, Test)

\* C11: Query with only the container set returns all and only the held
\* Releases with that container, in the order they were written; likewise
\* with only the releaseChannel set.
C11_SingleFieldQueryInWriteOrder ==
  /\ \A c \in Containers : Query(db, F(c, "")) = WithContainer(db.all, c)
  /\ \A ch \in Channels : Query(db, F("", ch)) = WithChannel(db.all, ch)

\* a container-only query has just returned the first and the third Release
\* written, a Release of the other container lying between them
C11_Witness ==
  /\ lastCall.kind = "query"
  /\ lastCall.r = F("a", "")
  /\ Len(db.all) = 3
  /\ db.all[2].container = "b"
  /\ db.all[1] # db.all[3]
  /\ lastCall.out = <<db.all[1], db.all[3]>>

\* C12: Query with neither field set returns the full sequence in write
\* order: its length is the number of successful Writes on the store, a
\* successful Write appends its Release to it and a failed Write leaves it.
C12_NoFilterQueryIsWriteLog ==
  [][/\ Len(Query(db', F("", ""))) = nWrites'
     /\ (lastCall'.kind = "write" /\ lastCall'.err = "nil")
          => Query(db', F("", "")) = Append(Query(db, F("", "")), lastCall'.r)
     /\ (lastCall'.kind = "write" /\ lastCall'.err # "nil")
          => Query(db', F("", "")) = Query(db, F("", ""))]_vars

\* a no-filter query has just returned three Releases that are not all alike
C12_Witness ==
  /\ lastCall.kind = "query"
  /\ lastCall.r = F("", "")
  /\ Len(lastCall.out) = 3
  /\ nWrites = 3
  /\ lastCall.out[1] # lastCall.out[2]
  /\ lastCall.out[2].container # lastCall.out[3].container

\* C13: loading bytes that parse yields a store holding exactly the records
\* that pass Write's checks, in input order; the load returns nil, and a
\* record that fails does not keep later records out.
C13_LoadKeepsValidRecords ==
  (lastCall.kind = "load" /\ lastCall.data.wellFormed)
    => /\ lastCall.err = "nil"
       /\ db.all = ValidOf(Unmarshal(lastCall.data))

\* the last Release of a sequence that has q's container and releaseChannel,
\* as a one-element sequence, or the empty sequence when there is none
LastWithKey(rs, q) ==
  LET hits == {i \in DOMAIN rs : SameKey(rs[i], q)} IN
    IF hits = {} THEN <<>>
    ELSE <<rs[CHOOSE i \in hits : \A j \in hits : j <= i]>>

\* C14: Query takes the first case that applies of: both fields set, only
\* container, only releaseChannel, neither. With both set only the
\* composite key is looked up, and a lookup that finds nothing returns the
\* empty sequence.
C14_QueryPrecedence ==
  \A q \in Filters :
    Query(db, q) =
      IF q.container # "" /\ q.releaseChannel # "" THEN LastWithKey(db.all, q)
      ELSE IF q.container # "" THEN WithContainer(db.all, q.container)
      ELSE IF q.releaseChannel # "" THEN WithChannel(db.all, q.releaseChannel)
      ELSE db.all

\* a query for a pair that is not held has just returned the empty sequence
\* while the store holds its container and its releaseChannel in other pairs
C14_Witness ==
  /\ lastCall.kind = "query"
  /\ lastCall.r.container # "" /\ lastCall.r.releaseChannel # ""
  /\ lastCall.out = <<>>
  /\ WithContainer(db.all, lastCall.r.container) # <<>>
  /\ WithChannel(db.all, lastCall.r.releaseChannel) # <<>>

\* the last two elements of a sequence are r1 and r2
EndsWith(rs, r1, r2) ==
  Len(rs) >= 2 /\ rs[Len(rs) - 1] = r1 /\ rs[Len(rs)] = r2

\* C15: when Write(r1) and then Write(r2) both succeed and r1, r2 have the
\* same composite key, Query with both fields returns r2 alone, while the
\* container-only, the channel-only and the no-filter Query each return
\* r1 and r2 both.
C15_SameKeyLaterWins ==
  [][(/\ lastCall.kind = "write" /\ lastCall.err = "nil"
      /\ lastCall'.kind = "write" /\ lastCall'.err = "nil"
      /\ nWrites' = nWrites + 1
      /\ SameKey(lastCall.r, lastCall'.r))
     => /\ Query(db', BothOf(lastCall.r)) = <<lastCall'.r>>
        /\ EndsWith(Query(db', F(lastCall.r.container, "")), lastCall.r, lastCall'.r)
        /\ EndsWith(Query(db', F("", lastCall.r.releaseChannel)), lastCall.r, lastCall'.r)
        /\ EndsWith(Query(db', F("", "")), lastCall.r, lastCall'.r)]_vars

\* two Writes of one key with different image paths have just succeeded on
\* a store that already held a Release of another key
C15_Witness ==
  /\ lastCall.kind = "write" /\ lastCall.err = "nil"
  /\ Len(db.all) = 3
  /\ ~SameKey(db.all[1], db.all[2])
  /\ SameKey(db.all[2], db.all[3])
  /\ db.all[2].imagePath # db.all[3].imagePath
  /\ db.all[3] = lastCall.r
  /\ Len(Query(db, F(lastCall.r.container, ""))) >= 2

\* C16: a store that was published and whose load has completed is never
\* modified again: while s.db keeps pointing at it, no step of any reload,
\* sequential or overlapping, changes its contents.
C16_CompletedGenerationImmutable ==
  [][(/\ dbId' = dbId
      /\ \/ dbId = 1
         \/ \E t \in Threads : pc[t] = "idle" /\ res[t] = "reloaded" /\ gen[t] = dbId)
     => db' = db]_vars

\* C17: a POST /v1/reload runs the stages of one ReloadDatabase call in
\* order and reports nothing before the call is over; it answers an error
\* exactly when the stat, the read or the parse failed, and success both
\* when the rebuild went through and when the file was not newer. (A call
\* that panics returns nothing and answers nothing.)
C17_OnDemandReloadOneCycle ==
  [][LET t == "manual" IN
       /\ pc'[t] # pc[t]
            => <<pc[t], pc'[t]>> \in
                 {<<"idle", "stated">>, <<"stated", "checked">>, <<"stated", "idle">>,
                  <<"checked", "read">>, <<"checked", "idle">>, <<"read", "loading">>,
                  <<"read", "idle">>, <<"loading", "idle">>}
       /\ pc'[t] # "idle" => res'[t] = "running"
       /\ (pc[t] = "idle" /\ pc'[t] = "idle" /\ res'[t] # res[t])
            => /\ file.state = "nostat"
               /\ res'[t] = "statErr"
               /\ ReloadStatus(res'[t]) = 500
       /\ (pc[t] = "idle" /\ pc'[t] = "stated") => file.state = "ok"
       /\ (pc[t] = "stated" /\ pc'[t] = "idle")
            => /\ ~After(statMod[t], lastMod)
               /\ res'[t] = "unchanged"
               /\ ReloadStatus(res'[t]) = 200
       /\ (pc[t] = "checked" /\ pc'[t] # pc[t])
            => IF file.state # "ok"
               THEN pc'[t] = "idle" /\ res'[t] = "readErr" /\ ReloadStatus(res'[t]) = 500
               ELSE pc'[t] = "read"
       /\ (pc[t] = "read" /\ pc'[t] # pc[t])
            => IF ~data[t].wellFormed
               THEN pc'[t] = "idle" /\ res'[t] = "unmarshalErr"
                    /\ ReloadStatus(res'[t]) = 500
               ELSE pc'[t] = "loading"
       /\ (pc[t] = "loading" /\ pc'[t] = "idle" /\ res'[t] # "panic")
            => /\ idx[t] > Len(Unmarshal(data[t]))
               /\ lastMod' = statMod[t]
               /\ res'[t] = "reloaded"
               /\ ReloadStatus(res'[t]) = 200]_vars

\* an on-demand reload, the only reload so far, has rebuilt a non-empty
\* store from the file and returned nil
C17_Witness ==
  /\ pc["manual"] = "idle" /\ res["manual"] = "reloaded"
  /\ res["timer"] = "none"
  /\ nReloads = 1
  /\ dbId = 2
  /\ db = BuiltFrom(data["manual"])
  /\ db.all # <<>>
  /\ lastMod = file.mtime

\* C18: once the file was given parseable bytes and a newer modification
\* time and then left alone, the reload loop ends up with a published store
\* that holds exactly the valid records of those bytes: when the watermark
\* has caught up with the file and no reload is running, so that every later
\* cycle finds the file unchanged, the store is that store.
C18_FreshFileEndsUpPublished ==
  (/\ file.fresh
   /\ ~crashed
   /\ \A t \in Threads : pc[t] = "idle"
   /\ res["timer"] = "reloaded"
   /\ lastMod = file.mtime)
    => db = WriteAll(NewInMemoryStore, ValidOf(Unmarshal(file.content)))

\* C19: an error met by a reload does not end the process and does not end
\* the goroutine's call early: a call that fails on the stat, the read or
\* the parse returns with the process running, and a record that Write does
\* not take is passed over, the loop going on to the next one.
C19_ReloadErrorKeepsServing ==
  [][\A t \in Threads :
       /\ (pc[t] \in {"idle", "checked", "read"} /\ res'[t] # res[t]
           /\ res'[t] \in {"statErr", "readErr", "unmarshalErr"})
            => (~crashed' /\ pc'[t] = "idle")
       /\ (/\ pc[t] = "loading"
           /\ \A u \in Threads \ {t} : pc[u] = "idle"
           /\ idx[t] <= Len(Unmarshal(data[t]))
           /\ WriteErr(Unmarshal(data[t])[idx[t]]) # "nil"
           /\ <<pc[t], idx[t], crashed>>' # <<pc[t], idx[t], crashed>>)
            => (~crashed' /\ pc'[t] = "loading" /\ idx'[t] = idx[t] + 1)]_vars

\* C20: when the bytes main hands to New do not parse, New returns the
\* error and the process ends there: no step, and so no query, ever follows
\* a failed startup.
C20_FailedStartupServesNothing ==
  /\ (lastCall.kind = "new" /\ ~lastCall.data.wellFormed)
       => (lastCall.err = "unmarshal" /\ crashed)
  /\ [][(lastCall.kind = "new" /\ lastCall.err # "nil") => FALSE]_vars

\* New has just failed on bytes that do not parse, leaving the empty store
\* loadDatabase had assigned, and the process is over
C20_Witness ==
  /\ lastCall.kind = "new"
  /\ ~lastCall.data.wellFormed
  /\ lastCall.err = "unmarshal"
  /\ db = NewInMemoryStore
  /\ crashed

\* C24: Write checks container, then releaseChannel, then imagePath, and
\* its error names the first of them that is empty; a Release with several
\* empty fields is reported for that one only.
C24_WriteNamesFirstEmptyField ==
  lastCall.kind = "write"
    => lastCall.err =
         IF lastCall.r.container = "" THEN "container"
         ELSE IF lastCall.r.releaseChannel = "" THEN "releaseChannel"
         ELSE IF lastCall.r.imagePath = "" THEN "image_path"
         ELSE "nil"

\* a Write of a Release with container set and the two other fields empty
\* has just failed on the releaseChannel
C24_Witness ==
  /\ lastCall.kind = "write"
  /\ lastCall.r.container # ""
  /\ lastCall.r.releaseChannel = ""
  /\ lastCall.r.imagePath = ""
  /\ lastCall.err = "releaseChannel"

\* the sum of the lengths of the lists a map of lists holds under the keys ks
RECURSIVE SumLen(_, _)
SumLen(m, ks) ==
  IF ks = {} THEN 0
  ELSE LET k == CHOOSE x \in ks : TRUE IN Len(m[k]) + SumLen(m, ks \ {k})

\* C27: in every store state the by-container list of c is the subsequence
\* of the full sequence with container c, the by-channel list of ch the
\* subsequence with releaseChannel ch (so each holds Releases of its key
\* only), the lengths of the by-container lists, and of the by-channel lists,
\* add up to the length of the full sequence, and no key maps to an empty
\* list.
C27_IndexConsistency ==
  /\ \A c \in DOMAIN db.byContainer :
       /\ db.byContainer[c] # <<>>
       /\ \A i \in DOMAIN db.byContainer[c] : db.byContainer[c][i].container = c
       /\ db.byContainer[c] = WithContainer(db.all, c)
  /\ \A ch \in DOMAIN db.byChannel :
       /\ db.byChannel[ch] # <<>>
       /\ \A i \in DOMAIN db.byChannel[ch] : db.byChannel[ch][i].releaseChannel = ch
       /\ db.byChannel[ch] = WithChannel(db.all, ch)
  /\ SumLen(db.byContainer, DOMAIN db.byContainer) = Len(db.all)
  /\ SumLen(db.byChannel, DOMAIN db.byChannel) = Len(db.all)

\* three Writes have filled two by-container lists and two by-channel lists
C27_Witness ==
  /\ lastCall.kind = "write" /\ lastCall.err = "nil"
  /\ Len(db.all) = 3
  /\ DOMAIN db.byContainer = Containers
  /\ DOMAIN db.byChannel = Channels
  /\ Len(db.byContainer[lastCall.r.container]) = 2
  /\ Len(db.byChannel[lastCall.r.releaseChannel]) = 2

\* the composite key of a Release, as a value of its own
KeyOf(r) == [container |-> r.container, releaseChannel |-> r.releaseChannel]

\* C28: in every store state the keys of the by-key index are the composite
\* keys that occur in the full sequence, and under each key the index holds
\* the last Release of the full sequence with that key.
C28_CompositeIndexHoldsLast ==
  /\ DOMAIN db.byBoth = {KeyOf(db.all[i]) : i \in DOMAIN db.all}
  /\ \A k \in DOMAIN db.byBoth : <<db.byBoth[k]>> = LastWithKey(db.all, k)

\* a key was written, then another key, then the first key again with
\* another image path, and the index holds the third Release under it
C28_Witness ==
  /\ lastCall.kind = "write" /\ lastCall.err = "nil"
  /\ Len(db.all) = 3
  /\ SameKey(db.all[1], db.all[3])
  /\ ~SameKey(db.all[1], db.all[2])
  /\ db.all[1].imagePath # db.all[3].imagePath
  /\ db.byBoth[KeyOf(db.all[1])] = db.all[3]
  /\ Cardinality(DOMAIN db.byBoth) = 2

\* C22: a Query never waits for a rebuild: while the process runs, the
\* query handler can take its step in every state, whatever stage of
\* ReloadDatabase the other goroutines are in.
C22_QueryNeverBlocked ==
  ~crashed => \A q \in Requests : ENABLED QueryHandler(q)

\* a query has just been answered while the watcher's loop stood between
\* the first and the second record of its rebuild
C22_Witness ==
  /\ lastCall.kind = "query"
  /\ pc["timer"] = "loading"
  /\ idx["timer"] = 2
  /\ Len(Unmarshal(data["timer"])) >= 2
  /\ lastCall.out = db.all
  /\ Len(db.all) = 1

\* C23: GET /v1/releases answers 200 exactly when the store's Query result
\* is non-empty and 404, with the empty list, exactly when it is empty; an
\* unfiltered query on an empty store answers 404.
C23_QueryStatusFollowsResult ==
  lastCall.kind = "query"
    => /\ lastCall.out = Query(db, lastCall.r)
       /\ lastCall.status \in {200, 404}
       /\ lastCall.status = 200 <=> lastCall.out # <<>>
       /\ lastCall.status = 404 <=> lastCall.out = <<>>

\* an unfiltered query on the empty store of a startup without records has
\* just been answered 404 with the empty list
C23_Witness ==
  /\ lastCall.kind = "query"
  /\ lastCall.r = F("", "")
  /\ db = NewInMemoryStore
  /\ dbId = 1
  /\ lastCall.out = <<>>
  /\ lastCall.status = 404

\* the records of a list that loadDatabase's loop hands to Write and Write
\* turns down for an empty field
Dropped(rs) ==
  {i \in DOMAIN rs : (\A j \in 1..i : rs[j] # Nil) /\ HasEmptyField(rs[i])}

\* the log entries that carry the error of a Write
ValidationEntries(logs) ==
  LET Test(e) == e.err \in {"container", "releaseChannel", "image_path"}
  IN SelectSeq(logs, Test)

\* C25: every error a load meets is logged: a parse error leaves an entry
\* that carries it, and each record dropped by Write's checks leaves one
\* entry that carries the validation error.
C25_EveryLoadErrorLogged ==
  lastCall.kind = "load"
    => /\ lastCall.err = "unmarshal"
            => \E i \in DOMAIN lastCall.logs : lastCall.logs[i].err = "unmarshal"
       /\ lastCall.data.wellFormed
            => Len(ValidationEntries(lastCall.logs))
                 = Cardinality(Dropped(Unmarshal(lastCall.data)))

\* C29: the watermark never decreases: no step of any reload, however the
\* timer-driven and the on-demand calls interleave, sets lastMod to a value
\* below the one it had.
C29_WatermarkNeverDecreases ==
  [][lastMod' >= lastMod]_vars

\* C30: when no reload is in progress and the watermark equals the file's
\* modification time, the published store holds exactly the valid records
\* of the file's content. Stated for the states in which reloads have gone
\* through and each that did read the very bytes the file holds now.
C30_StoreAgreesWithWatermark ==
  (/\ ~crashed
   /\ \A t \in Threads : pc[t] = "idle"
   /\ file.state = "ok"
   /\ lastMod = file.mtime
   /\ \E t \in Threads : res[t] = "reloaded"
   /\ \A t \in Threads : res[t] = "reloaded" => data[t] = file.content)
    => db.all = ValidOf(Unmarshal(file.content))

\* C21: once the context is cancelled the watcher leaves its loop and
\* starts no reload after that, and a rebuild still under way at shutdown
\* leaves no partly built store for queries to see: a query answered after
\* the cancellation, while the watcher's rebuild is running, returns what
\* the store that rebuild replaced returns or what the store fully loaded
\* from its bytes returns.
C21_ShutdownShowsNoPartialStore ==
  /\ (ctxDone /\ lastCall.kind = "query" /\ pc["timer"] = "loading")
       => lastCall.out \in {Query(old["timer"], lastCall.r),
                            Query(BuiltFrom(data["timer"]), lastCall.r)}
  /\ pc["timer"] = "exited" => ctxDone

\* C26: only a newer modification time makes ReloadDatabase ingest the
\* file: once the file's bytes were changed under a modification time that
\* is not after the watermark, no call of ReloadDatabase that stats the file
\* from then on reads those bytes, however many calls follow.
C26_QuietChangeNeverRead ==
  [][\A t \in Threads : ~(file.quiet /\ pc[t] = "checked" /\ pc'[t] = "read")]_vars

\* C31: right after New has returned a srv, when the watermark equals the
\* modification time the file has and the file's bytes parse, the store
\* holds the valid records of those bytes in their order, also when the file
\* was rewritten between main's read and New's os.Stat.
C31_StartupStoreAgreesWithWatermark ==
  (/\ lastCall.kind = "new"
   /\ lastCall.err = "nil"
   /\ file.state = "ok"
   /\ file.content.wellFormed
   /\ lastMod = file.mtime)
    => db.all = ValidOf(Unmarshal(file.content))

\* this step is t's call of ReloadDatabase returning an error
ReloadFails(t) ==
  \/ pc[t] = "idle" /\ nReloads' # nReloads /\ res'[t] = "statErr"
  \/ pc[t] = "checked" /\ pc'[t] = "idle" /\ res'[t] = "readErr"
  \/ pc[t] = "read" /\ pc'[t] = "idle" /\ res'[t] = "unmarshalErr"

\* C32: a call of ReloadDatabase that returns an error leaves the watermark
\* as it was, and leaves it older than the modification time the call saw
\* when the file still has that modification time: the next trigger gets
\* past the modification-time test and tries the rebuild again.
C32_FailedReloadIsTriedAgain ==
  [][\A t \in Threads :
       ReloadFails(t) =>
         /\ lastMod' = lastMod
         /\ (file.state = "ok" /\ file.mtime = statMod[t]) => After(file.mtime, lastMod')]_vars

\* C33: Query is read-only: answering a query, whatever its filter, changes
\* neither the full sequence nor any of the three indices of the store, nor
\* which store is published, nor the watermark.
C33_QueryIsReadOnly ==
  [][lastCall'.kind = "query" => db' = db /\ dbId' = dbId /\ lastMod' = lastMod]_vars

\* a container-only query that found nothing has been answered while the
\* watcher's rebuild was filling a store that holds Releases
C33_Witness ==
  /\ lastCall.kind = "query"
  /\ pc["timer"] = "loading"
  /\ Len(db.all) > 0
  /\ lastCall.r.container # "" /\ lastCall.r.releaseChannel = ""
  /\ Len(lastCall.out) = 0

\* C34: a reload of a newer file whose bytes parse and hold no valid record
\* goes through: when the call returns nil, the file still being as the call
\* saw it, the published store is empty, every Query returns the empty
\* sequence, and the watermark is the modification time the call saw.
C34_EmptyReloadPublishesEmptyStore ==
  [][\A t \in Threads :
       (/\ pc[t] = "loading"
        /\ pc'[t] = "idle"
        /\ res'[t] = "reloaded"
        /\ ValidOf(Unmarshal(data[t])) = <<>>)
        /\ file.state = "ok" /\ file.content = data[t] /\ file.mtime = statMod[t]
         => /\ db'.all = <<>>
            /\ \A q \in Requests : Query(db', q) = <<>>
            /\ lastMod' = statMod[t]]_vars

\* the watermark New leaves: the modification time of the file it stat'ed,
\* the zero time when the stat failed, which does not fail New
InitialWatermark ==
  lastCall.kind = "new" =>
    /\ lastMod = IF file.state = "ok" THEN file.mtime ELSE 0
    /\ lastCall.err = LoadErr(lastCall.data)

\* no loadDatabase has run since New (the store is New's) and t's call, which
\* found the modification time New found, returns nil with nothing rebuilt
UntouchedFileNoRebuild(t) ==
  (/\ dbId = 1
   /\ pc[t] = "stated"
   /\ pc'[t] # "stated"
   /\ statMod[t] = lastMod)
    => pc'[t] = "idle" /\ res'[t] = "unchanged" /\ db' = db /\ dbId' = dbId

\* the watermark is New's zero time: t's call, having stat'ed the file, does
\* not return before it has called loadDatabase
ZeroWatermarkRebuilds(t) ==
  (/\ lastMod = 0
   /\ pc[t] \in {"stated", "checked", "read"}
   /\ pc'[t] # pc[t])
    => \/ pc[t] = "stated" /\ pc'[t] = "checked"
       \/ pc[t] = "checked" /\ pc'[t] = "read"
       \/ pc[t] = "read" /\ dbId' = dbId + 1

\* the same, but for a file that cannot be read any more when the call comes
\* to os.ReadFile: that call returns the read error
ZeroWatermarkReads(t) ==
  (/\ lastMod = 0
   /\ pc[t] \in {"stated", "checked", "read"}
   /\ pc'[t] # pc[t])
    => \/ pc[t] = "stated" /\ pc'[t] = "checked"
       \/ pc[t] = "checked" /\ file.state = "ok" /\ pc'[t] = "read"
       \/ pc[t] = "checked" /\ file.state # "ok" /\ pc'[t] = "idle" /\ res'[t] = "readErr"
       \/ pc[t] = "read" /\ dbId' = dbId + 1

\* C35 as stated: New sets the watermark to the file's modification time
\* when its stat succeeds, so a reload right after startup with the file
\* untouched rebuilds nothing; when the stat fails New goes on with the zero
\* watermark, so the first later reload that can stat the file always
\* rebuilds.
C35_ZeroWatermarkAlwaysRebuilds ==
  /\ []InitialWatermark
  /\ [][\A t \in Threads : UntouchedFileNoRebuild(t) /\ ZeroWatermarkRebuilds(t)]_vars

\* C35, amended: as above, but the first later reload that can stat the
\* file always gets past the modification-time test and goes on to read the
\* file; it rebuilds when the read succeeds and returns the read error when
\* the file cannot be read any more.
C35_ZeroWatermarkAlwaysReads ==
  /\ []InitialWatermark
  /\ [][\A t \in Threads : UntouchedFileNoRebuild(t) /\ ZeroWatermarkReads(t)]_vars

\* started with the file missing, the watcher's first call that could stat
\* the file is in loadDatabase's loop, the watermark still zero
C35_Witness ==
  /\ lastMod = 0
  /\ dbId = 2
  /\ nReloads = 1
  /\ pc["timer"] = "loading"

\* C36: Run starts the file watcher before it serves, and returns for two
\* reasons only: nil once the context is cancelled, from its select, and the
\* fatal http server error once the listener's goroutine has closed
\* closeChan; while neither has happened Run has not returned, and no query
\* is answered before the watcher is started.
C36_RunReturnsOnCancelOrListenerExit ==
  /\ [](lastCall.kind = "query" => pc["timer"] # "unstarted")
  /\ [](run \in {"nil", "fatal"} => ctxDone \/ closeChan = "closed")
  /\ [][run' # run =>
          \/ run = "called" /\ run' = "watching" /\ pc'["timer"] = "idle"
          \/ run = "watching" /\ run' = "serving"
          \/ run = "serving" /\ run' = "nil" /\ ctxDone
          \/ run = "serving" /\ run' = "fatal" /\ closeChan = "closed"]_vars

\* Run, which had started the watcher, has returned the fatal error, the
\* context not cancelled
C36_Witness ==
  /\ run = "fatal"
  /\ ~ctxDone
  /\ pc["timer"] # "unstarted"

====
